---- MODULE Spec2Model ----
(***************************************************************************)
(* Model of runtest.py, the golden-transcript test runner of dim.          *)
(*                                                                         *)
(* Text is modelled at character level: a Python str is a sequence of      *)
(* one-character strings, so that prefix tests, splitting, stripping,      *)
(* sorting and regular-expression matching are computed the way the        *)
(* program computes them.                                                  *)
(***************************************************************************)
EXTENDS Integers, Sequences, FiniteSets, TLC

(***************************************************************************)
(* Characters.  Ascii lists the characters the model uses in code-point    *)
(* order; only the relative order matters (list.sort).                     *)
(***************************************************************************)
Ascii ==
  << "\t", "\n", " ", "#", "$", "(", ")", "*", "+", "-", ".",
     "0", "1", "2", "3", "4", "5", "6", "7", "8", "9", ":", "<", "=", ">",
     "A", "B", "C", "D", "E", "F", "H", "I", "K", "O", "R", "S", "T", "X",
     "^", "_",
     "a", "b", "c", "d", "e", "f", "g", "h", "i", "k", "l", "m", "n", "o",
     "p", "r", "s", "t", "u", "v", "w", "x", "y", "z", "|" >>

Ord(c) == CHOOSE i \in DOMAIN Ascii : Ascii[i] = c

Digits == {"0", "1", "2", "3", "4", "5", "6", "7", "8", "9"}

\* the characters str.strip() and str.split() treat as whitespace
Whitespace == {" ", "\t", "\n"}

Min(a, b) == IF a < b THEN a ELSE b

Max(a, b) == IF a < b THEN b ELSE a

(***************************************************************************)
(* Python str and list primitives used by the program.                     *)
(***************************************************************************)
\* s[i:j] with 0-based, already clamped indices
Slice(s, i, j) == SubSeq(s, i + 1, j)

\* s.startswith(p)
startswith(s, p) == Len(p) <= Len(s) /\ SubSeq(s, 1, Len(p)) = p

\* s.endswith(p)
endswith(s, p) == Len(p) <= Len(s) /\ SubSeq(s, Len(s) - Len(p) + 1, Len(s)) = p

\* s.find(p, start): lowest 0-based index >= start where p occurs, else -1
RECURSIVE find(_, _, _)
find(s, p, start) ==
  IF start > Len(s) - Len(p) THEN -1
  ELSE IF SubSeq(s, start + 1, start + Len(p)) = p THEN start
  ELSE find(s, p, start + 1)

\* p in s
contains(s, p) == find(s, p, 0) # -1

\* s.strip(chars): drop leading and trailing characters of the set
RECURSIVE strip_chars(_, _)
strip_chars(s, chars) ==
  IF s = << >> THEN s
  ELSE IF Head(s) \in chars THEN strip_chars(Tail(s), chars)
  ELSE IF s[Len(s)] \in chars THEN strip_chars(SubSeq(s, 1, Len(s) - 1), chars)
  ELSE s

\* s.strip()
strip(s) == strip_chars(s, Whitespace)

\* s.strip('\n')
strip_nl(s) == strip_chars(s, {"\n"})

\* s.split(sep) for a one-character separator: empty fields are kept
RECURSIVE split_sep(_, _)
split_sep(s, sep) ==
  LET k == find(s, <<sep>>, 0)
  IN  IF k = -1 THEN <<s>>
      ELSE <<Slice(s, 0, k)>> \o split_sep(Slice(s, k + 1, Len(s)), sep)

\* s.split(sep, 1): split at the first separator only
split_once(s, sep) ==
  LET k == find(s, <<sep>>, 0)
  IN  IF k = -1 THEN <<s>>
      ELSE <<Slice(s, 0, k), Slice(s, k + 1, Len(s))>>

\* s.split(): maximal runs of non-whitespace characters
RECURSIVE split_ws(_)
split_ws(s) ==
  LET t == strip_chars(s, Whitespace)
      ws == { i \in 1..Len(t) : t[i] \in Whitespace }
  IN  IF t = << >> THEN << >>
      ELSE IF ws = {} THEN <<t>>
      ELSE LET k == CHOOSE i \in ws : \A j \in ws : i <= j
           IN  <<SubSeq(t, 1, k - 1)>> \o split_ws(SubSeq(t, k, Len(t)))

\* s.splitlines(True): lines with their line ends kept
RECURSIVE splitlines_keep(_)
splitlines_keep(s) ==
  LET k == find(s, <<"\n">>, 0)
  IN  IF s = << >> THEN << >>
      ELSE IF k = -1 THEN <<s>>
      ELSE <<Slice(s, 0, k + 1)>> \o splitlines_keep(Slice(s, k + 1, Len(s)))

\* bytes.splitlines(): lines without their line ends
RECURSIVE splitlines(_)
splitlines(s) ==
  LET k == find(s, <<"\n">>, 0)
  IN  IF s = << >> THEN << >>
      ELSE IF k = -1 THEN <<s>>
      ELSE <<Slice(s, 0, k)>> \o splitlines(Slice(s, k + 1, Len(s)))

\* ''.join(seq): the text of a sequence of strings
RECURSIVE join(_)
join(seq) == IF seq = << >> THEN << >> ELSE Head(seq) \o join(Tail(seq))

\* a < b for str: lexicographic by code point, a proper prefix is smaller
RECURSIVE str_less(_, _)
str_less(a, b) ==
  IF b = << >> THEN FALSE
  ELSE IF a = << >> THEN TRUE
  ELSE IF Head(a) = Head(b) THEN str_less(Tail(a), Tail(b))
  ELSE Ord(Head(a)) < Ord(Head(b))

\* list.sort() on a list of str
RECURSIVE sort(_)
sort(seq) ==
  IF seq = << >> THEN << >>
  ELSE LET m == CHOOSE i \in 1..Len(seq) :
                  \A j \in 1..Len(seq) : ~str_less(seq[j], seq[i])
       IN  <<seq[m]>> \o
           sort([k \in 1..(Len(seq) - 1) |-> IF k < m THEN seq[k] ELSE seq[k + 1]])

(***************************************************************************)
(* Regular expressions (module re).  A pattern is kept as its text and     *)
(* compiled when it is used.  compile covers the syntax the program's own  *)
(* patterns use: literals, '.', '\d', '[..]', '^', unquantified groups and *)
(* the postfix repetitions '*' and '+'.                                    *)
(***************************************************************************)
RECURSIVE compile(_)
compile(t) ==
  IF t = << >> THEN << >>
  ELSE IF Head(t) \in {"(", ")"} THEN compile(Tail(t))
  ELSE IF Head(t) = "^" THEN <<[k |-> "bol", c |-> {}, q |-> "1"]>> \o compile(Tail(t))
  ELSE
    LET n == IF Head(t) = "\\" THEN 2
             ELSE IF Head(t) = "[" THEN find(t, <<"]">>, 0) + 1
             ELSE 1
        k == IF Head(t) = "." THEN "any"
             ELSE IF Head(t) = "\\" /\ t[2] = "d" THEN "dig"
             ELSE "set"
        c == IF Head(t) = "[" THEN { t[i] : i \in 2..(n - 1) }
             ELSE IF k = "set" THEN { t[n] }
             ELSE {}
        q == IF Len(t) > n /\ t[n + 1] \in {"*", "+"} THEN t[n + 1] ELSE "1"
    IN  <<[k |-> k, c |-> c, q |-> q]>>
          \o compile(SubSeq(t, n + (IF q = "1" THEN 1 ELSE 2), Len(t)))

\* whether one character is in the class of a pattern element
atom_matches(a, ch) ==
  CASE a.k = "any" -> ch # "\n"
    [] a.k = "dig" -> ch \in Digits
    [] a.k = "set" -> ch \in a.c
    [] OTHER -> FALSE

\* how many characters of the text from (1-based) position j on are in the
\* class of a pattern element
RECURSIVE run_length(_, _, _)
run_length(a, s, j) ==
  IF j > Len(s) THEN 0
  ELSE IF atom_matches(a, s[j]) THEN 1 + run_length(a, s, j + 1)
  ELSE 0

\* whether pattern elements i.. match the text at (1-based) position j
RECURSIVE match_here(_, _, _, _)
match_here(re, i, s, j) ==
  IF i > Len(re) THEN TRUE
  ELSE IF re[i].k = "bol" THEN j = 1 /\ match_here(re, i + 1, s, j)
  ELSE
    CASE re[i].q = "1" -> /\ j <= Len(s)
                          /\ atom_matches(re[i], s[j])
                          /\ match_here(re, i + 1, s, j + 1)
      [] re[i].q = "*" -> \E e \in j..(j + run_length(re[i], s, j)) : match_here(re, i + 1, s, e)
      [] re[i].q = "+" -> \E e \in (j + 1)..(j + run_length(re[i], s, j)) : match_here(re, i + 1, s, e)

\* re.match(pattern, s): the pattern matches at the start of s
re_match(pattern, s) == \E re \in { compile(pattern) } : match_here(re, 1, s, 1)

\* re.search(pattern, s): the pattern matches somewhere in s
re_search(pattern, s) ==
  \E re \in { compile(pattern) } : \E j \in 1..(Len(s) + 1) : match_here(re, 1, s, j)

(***************************************************************************)
(* Line classification.                                                    *)
(***************************************************************************)
is_ignorable(line) == Len(strip(line)) = 0 \/ startswith(line, <<"#">>)

generates_table(line) ==
  \/ startswith(line, <<"$", " ", "n", "d", "c", "l", "i", " ", "l", "i", "s", "t">>)
  \/ startswith(line, <<"$", " ", "n", "d", "c", "l", "i", " ", "d", "u", "m", "p", " ", "z", "o", "n", "e">>)
  \/ startswith(line, <<"$", " ", "n", "d", "c", "l", "i", " ", "h", "i", "s", "t", "o", "r", "y">>)

generates_map(line) ==
  \/ startswith(line, <<"$", " ", "n", "d", "c", "l", "i", " ", "s", "h", "o", "w">>)
  \/ startswith(line, <<"$", " ", "n", "d", "c", "l", "i", " ", "m", "o", "d", "i", "f", "y", " ", "r", "r">>)
  \/ \E verb \in { <<"g", "e", "t">>, <<"m", "a", "r", "k">> } : \E noun \in { <<"i", "p">>, <<"d", "e", "l", "e", "g", "a", "t", "i", "o", "n">> } :
        contains(line, verb \o <<" ">> \o noun)
  \/ re_search(<<"n", "d", "c", "l", "i", " ", "c", "r", "e", "a", "t", "e", " ", "r", "r", " ", ".", "*", " ", "f", "r", "o", "m">>, line)

is_pdns_query(line) ==
  \E cmd \in { <<"d", "i", "g">>, <<"d", "r", "i", "l", "l">> } : contains(line, cmd)

(***************************************************************************)
(* process_command: the line comparison of shell directives.               *)
(***************************************************************************)
\* compare_pair with the actual line written also when the pattern matches
compare_pair_actual(actual, expected_line) ==
  LET expected == strip_nl(expected_line)
  IN  IF endswith(expected, <<" ", "r", "e">>)
      THEN [line |-> actual \o <<"\n">>,
            ok |-> re_match(Slice(expected, 0, Len(expected) - 3), actual)]
      ELSE [line |-> actual \o <<"\n">>, ok |-> (actual = expected)]

\* one iteration of the loop of process_command (lines 161-171): the line
\* written for a pair and whether the pair leaves `passed' alone
compare_pair(actual, expected_line) ==
  LET expected == strip_nl(expected_line)
  IN  IF endswith(expected, <<" ", "r", "e">>)
      THEN IF re_match(Slice(expected, 0, Len(expected) - 3), actual)
           THEN [line |-> expected \o <<"\n">>, ok |-> TRUE]
           ELSE [line |-> actual \o <<"\n">>, ok |-> FALSE]
      ELSE [line |-> actual \o <<"\n">>, ok |-> (actual = expected)]

\* zip_longest(actual_output, expected_output, fillvalue=''): the i-th pair
zip_longest(actual_output, expected_output, i) ==
  [actual |-> IF i <= Len(actual_output) THEN actual_output[i] ELSE << >>,
   expected |-> IF i <= Len(expected_output) THEN expected_output[i] ELSE << >>]

\* the two lists as the loop sees them (lines 157-159)
sort_if(seq, sort_before) == IF sort_before THEN sort(seq) ELSE seq

\* process_command: the lines written to out, and the returned flag
process_command(actual_output, expected_output, sort_before) ==
  LET a == sort_if(actual_output, sort_before)
      e == sort_if(expected_output, sort_before)
      n == Max(Len(a), Len(e))
      res == [i \in 1..n |->
                compare_pair(zip_longest(a, e, i).actual, zip_longest(a, e, i).expected)]
  IN  [written |-> [i \in 1..n |-> res[i].line],
       passed |-> \A i \in 1..n : res[i].ok]

(***************************************************************************)
(* match_table: rows are sequences of cells; a cell is a str or a compiled *)
(* pattern.  Rows and lines are numbered from 1 here (from 0 in Python),   *)
(* and the dict `matched' is a sequence over the actual rows in which 0    *)
(* stands for "no entry".                                                  *)
(***************************************************************************)
Str(v) == [k |-> "str", v |-> v]

\* re.compile(text)
Pattern(text) == [k |-> "re", v |-> text]

\* match(row, info), lines 277-287
match(row, info) ==
  /\ Len(row) = Len(info)
  /\ \A i \in 1..Len(row) :
       IF info[i].k = "str" THEN info[i] = row[i]
       ELSE re_match(info[i].v, row[i].v)

\* list(matched.values())
matched_values(matched) == { matched[n] : n \in DOMAIN matched } \ {0}

\* candidates without the test that the expected row is still free
candidates_reuse(row, expected_table, matched) ==
  { e \in 1..Len(expected_table) : match(row, expected_table[e]) }

\* the expected rows an actual row may still be assigned to (line 291)
candidates(row, expected_table, matched) ==
  { e \in 1..Len(expected_table) :
      e \notin matched_values(matched) /\ match(row, expected_table[e]) }

\* match_row taking the last free expected row that matches instead of the first
match_row_last(row, expected_table, matched) ==
  LET cand == candidates(row, expected_table, matched)
  IN  IF cand = {} THEN 0 ELSE CHOOSE e \in cand : \A f \in cand : f <= e

\* one iteration of the outer loop, lines 289-293: the entry made for row `no'
match_row(row, expected_table, matched) ==
  LET cand == candidates(row, expected_table, matched)
  IN  IF cand = {} THEN 0 ELSE CHOOSE e \in cand : \A f \in cand : e <= f

\* the loop of lines 288-293 from row `no' on
RECURSIVE match_rows(_, _, _)
match_rows(actual_table, expected_table, matched) ==
  IF Len(matched) = Len(actual_table) THEN matched
  ELSE match_rows(actual_table, expected_table,
                  Append(matched,
                         match_row(actual_table[Len(matched) + 1], expected_table, matched)))

\* sorted(seq) for a list of numbers
RECURSIVE sorted_ints(_)
sorted_ints(seq) ==
  IF seq = << >> THEN << >>
  ELSE LET m == CHOOSE i \in 1..Len(seq) : \A j \in 1..Len(seq) : seq[i] <= seq[j]
       IN  <<seq[m]>> \o
           sorted_ints([k \in 1..(Len(seq) - 1) |-> IF k < m THEN seq[k] ELSE seq[k + 1]])

\* compose without sorted(): the expected lines are taken in the order of the
\* actual rows they were matched to
compose_unsorted(matched, actual_raw, expected_raw) ==
  [no \in 1..Len(actual_raw) |->
     IF no <= Len(matched) /\ matched[no] # 0 THEN expected_raw[matched[no]]
     ELSE actual_raw[no]]

\* lines 294-301: the output lines, given the finished dict
compose(matched, actual_raw, expected_raw) ==
  LET values == sorted_ints(SelectSeq(matched, LAMBDA v : v # 0))
      expected_matched == [i \in 1..Len(values) |-> expected_raw[values[i]]]
      in_matched(no) == no <= Len(matched) /\ matched[no] # 0
      \* how many pop(0) calls have been made up to and including line `no'
      pops(no) == Cardinality({ p \in 1..no : in_matched(p) })
  IN  [no \in 1..Len(actual_raw) |->
         IF in_matched(no) THEN expected_matched[pops(no)] ELSE actual_raw[no]]

match_table(actual_table, expected_table, actual_raw, expected_raw) ==
  compose(match_rows(actual_table, expected_table, << >>), actual_raw, expected_raw)

(***************************************************************************)
(* table_from_lines: the three table shapes.  Every cell is a str.         *)
(***************************************************************************)
\* the lines of a list that are not ignorable, in order
not_ignorable(lines) == SelectSeq(lines, LAMBDA l : ~is_ignorable(l))

\* [Str(c) for c in cells]
str_cells(cells) == [i \in 1..Len(cells) |-> Str(cells[i])]

\* lines 196-200: the offset found for every header token of the header line
RECURSIVE header_offsets(_, _, _)
header_offsets(header_line, headers, offsets) ==
  IF headers = << >> THEN offsets
  ELSE LET start_find == IF offsets # << >> THEN offsets[Len(offsets)] + 1 ELSE 0
       IN  header_offsets(header_line, Tail(headers),
                          Append(offsets, find(header_line, Head(headers), start_find)))

\* lines 204-210: the row cut out of one line at the offsets
fixed_width_row(line, offsets) ==
  [col \in 1..Len(offsets) |->
     IF offsets[col] < Len(line)
     THEN LET next_offset == IF col < Len(offsets)
                             THEN Min(offsets[col + 1], Len(line))
                             ELSE Len(line)
          IN  Str(strip(Slice(line, offsets[col], next_offset)))
     ELSE Str(<< >>)]

table_from_lines(lines, cmd) ==
  IF generates_map(cmd)
  THEN LET kept == not_ignorable(lines)
       IN  [i \in 1..Len(kept) |-> str_cells(split_once(kept[i], ":"))]
  ELSE IF contains(cmd, <<" ", "-", "H">>) \/ contains(cmd, <<"d", "u", "m", "p", " ", "z", "o", "n", "e">>)
  THEN LET kept == not_ignorable(lines)
       IN  [i \in 1..Len(kept) |-> str_cells(split_sep(kept[i], "\t"))]
  ELSE LET kept == not_ignorable(lines)
       IN  IF kept = << >> THEN << >>
           ELSE LET offsets == header_offsets(kept[1], split_ws(kept[1]), << >>)
                IN  [i \in 1..Len(kept) |-> fixed_width_row(kept[i], offsets)]

(***************************************************************************)
(* add_regex.  The result is [err, table]: err is set when the Python code *)
(* raises (IndexError on a row with too few cells, AttributeError on a     *)
(* cell that is already a compiled pattern); the table is then not used.   *)
(***************************************************************************)
\* row[i] = re.compile(text), i counted from 0 as in the source
set_pattern(r, i, text) ==
  IF r.err \/ i >= Len(r.row) THEN [err |-> TRUE, row |-> r.row]
  ELSE [err |-> FALSE, row |-> [r.row EXCEPT ![i + 1] = Pattern(text)]]

\* row[i] == text for a cell that exists, i counted from 0
cell_is(row, i, text) == row[i + 1] = Str(text)

\* lines 224-229
map_rule(r) ==
  IF \E key \in { <<"c", "r", "e", "a", "t", "e", "d">>, <<"m", "o", "d", "i", "f", "i", "e", "d">>, <<"c", "r", "e", "a", "t", "e", "d", "_", "b", "y">>, <<"m", "o", "d", "i", "f", "i", "e", "d", "_", "b", "y">> } :
       cell_is(r.row, 0, key)
  THEN set_pattern(r, 1, <<".", "*">>)
  ELSE r

\* lines 231-235
keys_rule(r) ==
  set_pattern(set_pattern(set_pattern(r, 0, <<".", "*", "_", "[", "z", "k", "]", "s", "k", "_", ".", "*">>), 2, <<"\\", "d", "*">>), 5, <<".", "*">>)

\* lines 236-240
dnskeys_rule(r) ==
  set_pattern(set_pattern(set_pattern(r, 0, <<"\\", "d", "*">>), 1, <<"\\", "d", "*">>), 3, <<".", "*">>)

\* lines 241-245
keys_rule_2(r) ==
  set_pattern(set_pattern(set_pattern(r, 0, <<".", "*">>), 2, <<"\\", "d", "*">>), 5, <<".", "*">>)

\* lines 246-250
ds_rule(r) ==
  set_pattern(set_pattern(set_pattern(r, 0, <<"\\", "d", "*">>), 2, <<"\\", "d">>), 3, <<".", "*">>)

\* lines 254-259 for one rr_col
rr_col_rule(r, rr_col) ==
  IF r.err \/ ~(rr_col + 1 < Len(r.row)) THEN r
  ELSE IF cell_is(r.row, rr_col, <<"S", "O", "A">>)
  THEN IF r.row[rr_col + 2].k # "str" THEN [err |-> TRUE, row |-> r.row]
       ELSE LET stuff == split_ws(r.row[rr_col + 2].v)
            IN  IF Len(stuff) < 2 THEN [err |-> TRUE, row |-> r.row]
                ELSE set_pattern(r, rr_col + 1,
                                 stuff[1] \o <<" ">> \o stuff[2] \o <<" ", "\\", "d", "+", " ", "\\", "d", "+", " ", "\\", "d", "+", " ", "\\", "d", "+", " ", "\\", "d", "+">>)
  ELSE IF cell_is(r.row, rr_col, <<"D", "S">>)
  THEN set_pattern(r, rr_col + 1, <<"\\", "d", "+", " ", "8", " ", "2", " ", ".", "*">>)
  ELSE r

\* lines 252-259
rr_rule(r) == rr_col_rule(rr_col_rule(rr_col_rule(r, 2), 3), 4)

\* lines 261-267
history_rule(r) ==
  LET r1 == IF ~cell_is(r.row, 0, <<"t", "i", "m", "e", "s", "t", "a", "m", "p">>) THEN set_pattern(r, 0, <<".", "*">>) ELSE r
      last == r1.row[Len(r1.row)]
      r2 == IF last.k # "str" THEN [err |-> TRUE, row |-> r1.row]
            ELSE IF startswith(last.v, <<"s", "e", "t", "_", "a", "t", "t", "r", " ", "s", "e", "r", "i", "a", "l", "=">>)
            THEN set_pattern(r1, Len(r1.row) - 1, <<"s", "e", "t", "_", "a", "t", "t", "r", " ", "s", "e", "r", "i", "a", "l", "=", "\\", "d", "+">>)
            ELSE r1
  IN  IF r2.err \/ Len(r2.row) < 5 THEN [err |-> TRUE, row |-> r2.row]
      ELSE IF cell_is(r2.row, 4, <<"k", "e", "y">>) THEN set_pattern(r2, 5, <<".", "*">>)
      ELSE r2

\* lines 216-222: check_regexes for one row
RECURSIVE check_regexes_row(_, _)
check_regexes_row(r, regexes) ==
  IF regexes = << >> THEN r
  ELSE IF re_search(Head(regexes), r.row[1].v) THEN set_pattern(r, 0, Head(regexes))
  ELSE check_regexes_row(r, Tail(regexes))

\* lines 269-270
dnssec_enable_rule(r) ==
  check_regexes_row(r, << <<".", "*", "C", "r", "e", "a", "t", "e", "d", " ", "k", "e", "y", " ", ".", "*", "_", "[", "z", "k", "]", "s", "k", "_", ".", "*", " ", "f", "o", "r", " ", "z", "o", "n", "e", " ", "(", ".", "*", ")">>,
                          <<".", "*", "C", "r", "e", "a", "t", "i", "n", "g", " ", "R", "R", " ", ".", "*", " ", "D", "S", " ", "\\", "d", "+", " ", "8", " ", "2", " ", ".", "*", " ", "i", "n", " ", "z", "o", "n", "e", " ", ".", "*">> >>)

\* line 272
dnssec_disable_rule(r) ==
  check_regexes_row(r, << <<".", "*", "D", "e", "l", "e", "t", "i", "n", "g", " ", "R", "R", " ", ".", "*", " ", "D", "S", " ", "\\", "d", "+", " ", "8", " ", "2", " ", ".", "*", " ", "f", "r", "o", "m", " ", "z", "o", "n", "e", " ", ".", "*">> >>)

\* the rule of add_regex that is named `rule', applied to one row
apply_rule(rule, r) ==
  CASE rule = "map" -> map_rule(r)
    [] rule = "keys" -> keys_rule(r)
    [] rule = "dnskeys" -> dnskeys_rule(r)
    [] rule = "keys_2" -> keys_rule_2(r)
    [] rule = "ds" -> ds_rule(r)
    [] rule = "rr" -> rr_rule(r)
    [] rule = "history" -> history_rule(r)
    [] rule = "dnssec_enable" -> dnssec_enable_rule(r)
    [] rule = "dnssec_disable" -> dnssec_disable_rule(r)

\* a rule applied to every row from row `first' on
for_rows(t, first, rule) ==
  IF t.err THEN t
  ELSE LET rs == [i \in 1..Len(t.table) |->
                    IF i >= first THEN apply_rule(rule, [err |-> FALSE, row |-> t.table[i]])
                    ELSE [err |-> FALSE, row |-> t.table[i]]]
       IN  [err |-> \E i \in 1..Len(rs) : rs[i].err,
            table |-> [i \in 1..Len(rs) |-> rs[i].row]]

\* a loop of add_regex that is run only under a condition on the command
when(cond, rule, first) == IF cond THEN << [rule |-> rule, first |-> first] >> ELSE << >>

\* lines 224-272: the loops add_regex runs for a command, in the order it runs them
loops(cmd) ==
  IF generates_map(cmd) THEN when(TRUE, "map", 1)
  ELSE IF generates_table(cmd)
  THEN when(re_search(<<"l", "i", "s", "t", " ", "z", "o", "n", "e", " ", ".", "*", " ", "k", "e", "y", "s">>, cmd), "keys", 1)
         \o when(re_search(<<"l", "i", "s", "t", " ", "z", "o", "n", "e", " ", ".", "*", " ", "d", "n", "s", "k", "e", "y", "s">>, cmd), "dnskeys", 1)
         \o when(re_search(<<"l", "i", "s", "t", " ", "z", "o", "n", "e", " ", ".", "*", " ", "k", "e", "y", "s">>, cmd), "keys_2", 1)
         \o when(re_search(<<"l", "i", "s", "t", " ", "z", "o", "n", "e", " ", ".", "*", " ", "d", "s">>, cmd), "ds", 2)
         \o (IF \/ contains(cmd, <<"d", "c", "l", "i", " ", "l", "i", "s", "t", " ", "z", "o", "n", "e">>)
                \/ contains(cmd, <<"d", "c", "l", "i", " ", "d", "u", "m", "p", " ", "z", "o", "n", "e">>)
                \/ contains(cmd, <<"d", "c", "l", "i", " ", "l", "i", "s", "t", " ", "r", "r", "s">>)
             THEN when(TRUE, "rr", 1)
             ELSE when(contains(cmd, <<"d", "c", "l", "i", " ", "h", "i", "s", "t", "o", "r", "y">>), "history", 1))
  ELSE IF contains(cmd, <<"d", "n", "s", "s", "e", "c", " ", "e", "n", "a", "b", "l", "e">>) \/ contains(cmd, <<"d", "n", "s", "s", "e", "c", " ", "n", "e", "w">>)
  THEN when(TRUE, "dnssec_enable", 1)
  ELSE IF \/ contains(cmd, <<"d", "n", "s", "s", "e", "c", " ", "d", "i", "s", "a", "b", "l", "e">>)
          \/ contains(cmd, <<"d", "n", "s", "s", "e", "c", " ", "d", "e", "l", "e", "t", "e">>)
          \/ contains(cmd, <<"d", "e", "l", "e", "t", "e", " ", "z", "o", "n", "e">>)
  THEN when(TRUE, "dnssec_disable", 1)
  ELSE << >>

\* the loops run one after the other on the table
RECURSIVE run_loops(_, _)
run_loops(t, ls) ==
  IF ls = << >> THEN t
  ELSE run_loops(for_rows(t, Head(ls).first, Head(ls).rule), Tail(ls))

add_regex(table, cmd) == run_loops([err |-> FALSE, table |-> table], loops(cmd))

(***************************************************************************)
(* run_test: the pieces of one iteration of the main loop.                 *)
(***************************************************************************)
\* line 305: split_cat_command(line)
split_cat_command(line) ==
  [word |-> <<"E", "O", "F">>, line |-> <<"$">> \o split_sep(line, "|")[2]]

\* lines 308-317: get_cat_input, as [cat_input, lines, out] when it returns
RECURSIVE get_cat_input(_, _, _, _)
get_cat_input(lines, word, out, cat_input) ==
  IF Len(lines) > 0
  THEN IF Head(lines) = word \o <<"\n">>
       THEN [cat_input |-> cat_input, lines |-> Tail(lines), out |-> out \o Head(lines)]
       ELSE get_cat_input(Tail(lines), word, out \o Head(lines), cat_input \o Head(lines))
  ELSE [cat_input |-> cat_input, lines |-> lines, out |-> out]

\* lines 367-369: how many lines are popped into expected_result
block_length(lines) ==
  LET stops == { i \in 1..Len(lines) : startswith(lines[i], <<"$", " ">>) }
  IN  IF stops = {} THEN Len(lines) ELSE (CHOOSE i \in stops : \A j \in stops : i <= j) - 1

\* lines[0:0] = value: slice assignment takes the elements of `value', which for
\* a str are its characters
slice_insert(lines, value) == [i \in 1..Len(value) |-> <<value[i]>>] \o lines

\* lines 370-371: the loop that pops trailing ignorable lines
RECURSIVE push_back(_, _)
push_back(expected_result, lines) ==
  IF Len(expected_result) > 0 /\ is_ignorable(expected_result[Len(expected_result)])
  THEN push_back(SubSeq(expected_result, 1, Len(expected_result) - 1),
                 slice_insert(lines, expected_result[Len(expected_result)]))
  ELSE [expected_result |-> expected_result, lines |-> lines]

\* lines 359-371 for a line that is a directive: what is known before the
\* command is run
prelude(all_lines, out0) ==
  LET first == Head(all_lines)
      is_cat == startswith(first, <<"$", " ", "c", "a", "t", " ", "<", "<", "E", "O", "F", " ", "|", " ", "n", "d", "c", "l", "i">>)
      cat == IF is_cat
             THEN get_cat_input(Tail(all_lines), split_cat_command(first).word,
                                out0 \o first, << >>)
             ELSE [cat_input |-> << >>, lines |-> Tail(all_lines), out |-> out0 \o first]
      n == block_length(cat.lines)
      block == SubSeq(cat.lines, 1, n)
      pb == push_back(block, SubSeq(cat.lines, n + 1, Len(cat.lines)))
  IN  [line |-> IF is_cat THEN split_cat_command(first).line ELSE first,
       has_input |-> is_cat, cmd_input |-> cat.cat_input,
       block |-> block, expected_result |-> pb.expected_result,
       lines |-> pb.lines, out |-> cat.out]

\* [[x] for x in lines]
one_cell_rows(lines) == [i \in 1..Len(lines) |-> <<Str(lines[i])>>]

\* lines 375-380: the two tables that are compared for an ndcli directive
actual_table_of(line, result) ==
  IF generates_table(line) \/ generates_map(line)
  THEN table_from_lines(split_sep(result, "\n"), line)
  ELSE one_cell_rows(splitlines_keep(result))

expected_table_of(line, expected_result) ==
  IF generates_table(line) \/ generates_map(line)
  THEN table_from_lines([i \in 1..Len(expected_result) |-> strip_nl(expected_result[i])], line)
  ELSE one_cell_rows(expected_result)

\* lines 381-385: the lines written for an ndcli directive, unless add_regex raises
ndcli_output(annotated, actual_table, result, expected_result) ==
  IF annotated.err THEN << >>
  ELSE match_table(actual_table, annotated.table, splitlines_keep(result), expected_result)

\* lines 321-325: whether check_pdns_output compares the zones for this line
is_zone_command(line) ==
  \E c \in { <<"c", "r", "e", "a", "t", "e", " ">>, <<"d", "e", "l", "e", "t", "e", " ">>, <<"m", "o", "d", "i", "f", "y", " ">> } :
    \E o \in { <<"r", "r">>, <<"z", "o", "n", "e">>, <<"z", "o", "n", "e", "-", "p", "r", "o", "f", "i", "l", "e">>, <<"z", "o", "n", "e", "-", "g", "r", "o", "u", "p">> } :
      startswith(SubSeq(line, 9, Len(line)), c \o o)

\* lines 320-331: check_pdns_output, given what compare_dim_pdns_zones returns
check_pdns_output(line, zones_equal) ==
  IF ~is_zone_command(line) \/ zones_equal
  THEN [ok |-> TRUE, written |-> << >>]
  ELSE [ok |-> FALSE, written |-> <<"Z", "o", "n", "e", " ", "i", "n", "c", "o", "r", "r", "e", "c", "t", "l", "y", " ", "e", "x", "p", "o", "r", "t", "e", "d", "\n">>]

\* lines 338-345: the flags after the scan of the transcript
scan_auto_pdns_check(lines, auto_pdns_check_arg) ==
  /\ auto_pdns_check_arg
  /\ ~\E i \in 1..Len(lines) :
        contains(lines[i], <<"c", "r", "e", "a", "t", "e", " ", "z", "o", "n", "e", "-", "g", "r", "o", "u", "p">>) \/ contains(lines[i], <<"c", "r", "e", "a", "t", "e", " ", "o", "u", "t", "p", "u", "t">>)

scan_pdns_needed(lines, auto_pdns_check_arg) ==
  \/ \E i \in 1..Len(lines) : contains(lines[i], <<"d", "r", "i", "l", "l">>) \/ contains(lines[i], <<"d", "i", "g">>)
  \/ scan_auto_pdns_check(lines, auto_pdns_check_arg)

(***************************************************************************)
(* State.                                                                  *)
(*                                                                         *)
(* run_test: testfile is the transcript as read at line 336, lines the     *)
(* cursor, out the text written to the output file, pc the place of the    *)
(* run ("loop" in the main loop, "done" after a return, "raised" after an  *)
(* exception left run_test), ret the value returned.  hist has one record  *)
(* per directive whose command was run.                                    *)
(*                                                                         *)
(* `mt' is one call of match_table and `cmp' one call of process_command,  *)
(* each run step by step on inputs drawn in the initial state.  cmp.failed *)
(* records, for every pair compared so far, whether the pair cleared       *)
(* `passed'.  `tb' is one call of table_from_lines followed by add_regex,  *)
(* `wu' one call of PDNSOutputProcess.wait_updates and `mn' one run of the *)
(* script's main part.                                                     *)
(***************************************************************************)
VARIABLES testfile, lines, out, stop_on_error, auto_pdns_check, pdns_needed,
          pc, ret, hist, mt, cmp, tb, wu, mn

run == <<testfile, lines, out, stop_on_error, auto_pdns_check, pdns_needed,
         pc, ret, hist>>

vars == <<run, mt, cmp, tb, wu, mn>>

\* the variables of run_test while a single function is run on its own
RunIdle ==
  /\ testfile = << >> /\ lines = << >> /\ out = << >>
  /\ stop_on_error = FALSE /\ auto_pdns_check = FALSE /\ pdns_needed = FALSE
  /\ pc = "idle" /\ ret = "none" /\ hist = << >>

\* a function that is not being run
TbIdle == tb = [pc |-> "idle"]

WuIdle == wu = [pc |-> "idle"]

MnIdle == mn = [pc |-> "idle"]

\* bounds of the inputs
MaxRows == 3

MaxExtraRaw == 1

MaxCmpLines == 2

\* all sequences over S of length at most n
RECURSIVE SeqsUpTo(_, _)
SeqsUpTo(S, n) ==
  IF n = 0 THEN { << >> }
  ELSE LET shorter == SeqsUpTo(S, n - 1)
       IN  shorter \cup { Append(q, x) : q \in { r \in shorter : Len(r) = n - 1 }, x \in S }

DigitChar == <<"1", "2", "3", "4", "5", "6", "7", "8", "9">>

\* n raw lines that differ from each other and from every line of the other side
RawLines(tag, n) == [i \in 1..n |-> <<tag, DigitChar[i], "\n">>]

(***************************************************************************)
(* match_table, step by step.                                              *)
(***************************************************************************)
ActualRows == { <<Str(<<"a">>)>>, <<Str(<<"b">>)>>, <<Str(<<"a">>), Str(<<"b">>)>> }

ExpectedRows == ActualRows \cup { <<Pattern(<<".", "*">>)>> }

\* Inputs of match_table.  As in every call made by run_test, there are at
\* least as many raw lines as rows on either side.
MatchInit ==
  /\ RunIdle
  /\ cmp = [pc |-> "idle"]
  /\ TbIdle /\ WuIdle /\ MnIdle
  /\ \E at \in SeqsUpTo(ActualRows, MaxRows), et \in SeqsUpTo(ExpectedRows, MaxRows),
     xa \in 0..MaxExtraRaw, xe \in 0..MaxExtraRaw :
       mt = [pc |-> "loop", actual_table |-> at, expected_table |-> et,
             actual_raw |-> RawLines("A", Len(at) + xa),
             expected_raw |-> RawLines("E", Len(et) + xe),
             matched |-> << >>, result |-> << >>]

\* lines 289-293: the next actual row is looked up among the expected rows
MatchRow ==
  /\ mt.pc = "loop"
  /\ Len(mt.matched) < Len(mt.actual_table)
  /\ mt' = [mt EXCEPT !.matched =
              Append(@, match_row(mt.actual_table[Len(mt.matched) + 1],
                                  mt.expected_table, mt.matched))]
  /\ UNCHANGED <<run, cmp, tb, wu, mn>>

\* lines 294-301: the output lines are put together and returned
MatchCompose ==
  /\ mt.pc = "loop"
  /\ Len(mt.matched) = Len(mt.actual_table)
  /\ mt' = [mt EXCEPT !.pc = "done",
                      !.result = compose(mt.matched, mt.actual_raw, mt.expected_raw)]
  /\ UNCHANGED <<run, cmp, tb, wu, mn>>

MatchNext == MatchRow \/ MatchCompose

(***************************************************************************)
(* process_command, step by step.                                          *)
(***************************************************************************)
ActualLines == { <<"a">>, <<"b">>, <<"a", "\t", "b">>, << >> }

ExpectedLines == { <<"a", "\n">>, <<"b", "\n">>, <<"a", "\t", "b", "\n">>, <<"a", ".", "*", " ", "r", "e", "\n">>, <<"\n">> }

CmpInit ==
  /\ RunIdle
  /\ mt = [pc |-> "idle"]
  /\ TbIdle /\ WuIdle /\ MnIdle
  /\ \E a \in SeqsUpTo(ActualLines, MaxCmpLines), e \in SeqsUpTo(ExpectedLines, MaxCmpLines),
     s \in BOOLEAN :
       cmp = [pc |-> "start", input_actual |-> a, input_expected |-> e,
              sort_before |-> s, actual_output |-> a, expected_output |-> e,
              i |-> 0, written |-> << >>, failed |-> << >>, passed |-> TRUE]

\* lines 156-159: both lists are sorted in place when sort_before is set
CmpSort ==
  /\ cmp.pc = "start"
  /\ cmp' = [cmp EXCEPT !.pc = "loop",
                        !.actual_output = sort_if(@, cmp.sort_before),
                        !.expected_output = sort_if(@, cmp.sort_before)]
  /\ UNCHANGED <<run, mt, tb, wu, mn>>

\* lines 160-171: one pair is compared and one line written
CmpPair ==
  /\ cmp.pc = "loop"
  /\ cmp.i < Max(Len(cmp.actual_output), Len(cmp.expected_output))
  /\ LET pair == zip_longest(cmp.actual_output, cmp.expected_output, cmp.i + 1)
         res == compare_pair(pair.actual, pair.expected)
     IN  cmp' = [cmp EXCEPT !.i = @ + 1,
                            !.written = Append(@, res.line),
                            !.failed = Append(@, ~res.ok),
                            !.passed = @ /\ res.ok]
  /\ UNCHANGED <<run, mt, tb, wu, mn>>

\* line 172
CmpReturn ==
  /\ cmp.pc = "loop"
  /\ cmp.i = Max(Len(cmp.actual_output), Len(cmp.expected_output))
  /\ cmp' = [cmp EXCEPT !.pc = "done"]
  /\ UNCHANGED <<run, mt, tb, wu, mn>>

CmpNext == CmpSort \/ CmpPair \/ CmpReturn

SpecMatch == MatchInit /\ [][MatchNext]_vars

SpecCmp == CmpInit /\ [][CmpNext]_vars

(***************************************************************************)
(* table_from_lines followed by add_regex, as run_test calls them for one  *)
(* side of a table- or map-shaped command.                                 *)
(***************************************************************************)
MaxTableLines == 2

\* a map-shaped command and a command of the default (fixed-width) shape
TableCommands == { <<"$", " ", "n", "d", "c", "l", "i", " ", "s", "h", "o", "w", " ", "z", "o", "n", "e", " ", "a", "\n">>, <<"$", " ", "n", "d", "c", "l", "i", " ", "l", "i", "s", "t", " ", "p", "o", "o", "l", "s", "\n">> }

\* lines without their line ends, as run_test passes them
TableLines ==
  { <<"c", "r", "e", "a", "t", "e", "d", ":", " ", "2", "0", "2", "0", "-", "0", "1", "-", "0", "1">>, <<"c", "r", "e", "a", "t", "e", "d">>, <<"k", ":", "v", ":", "w">>, << >>, <<"#", " ", "c">>,
    <<"a", "b", " ", "b">>, <<"a", " ", "b">>, <<"1", " ", " ", "2">> }

TableInit ==
  /\ RunIdle
  /\ mt = [pc |-> "idle"]
  /\ cmp = [pc |-> "idle"]
  /\ WuIdle /\ MnIdle
  /\ \E c \in TableCommands, ls \in SeqsUpTo(TableLines, MaxTableLines) :
       tb = [pc |-> "start", cmd |-> c, lines |-> ls, table |-> << >>,
             annotated |-> [err |-> FALSE, table |-> << >>]]

\* lines 175-212: the table is extracted
TableExtract ==
  /\ tb.pc = "start"
  /\ tb' = [tb EXCEPT !.pc = "extracted", !.table = table_from_lines(tb.lines, tb.cmd)]
  /\ UNCHANGED <<run, mt, cmp, wu, mn>>

\* lines 215-273: the patterns are put in
TableAnnotate ==
  /\ tb.pc = "extracted"
  /\ tb' = [tb EXCEPT !.pc = "done", !.annotated = add_regex(tb.table, tb.cmd)]
  /\ UNCHANGED <<run, mt, cmp, wu, mn>>

TableNext == TableExtract \/ TableAnnotate

SpecTable == TableInit /\ [][TableNext]_vars

(***************************************************************************)
(* run_test, one iteration of the main loop per step.  The transcript is   *)
(* drawn from directive lines and expected blocks; what a command prints   *)
(* and what the zone comparison answers is chosen when the command runs.   *)
(***************************************************************************)
MaxDirectives == 2

ListKeys == <<"$", " ", "n", "d", "c", "l", "i", " ", "l", "i", "s", "t", " ", "z", "o", "n", "e", " ", "a", " ", "k", "e", "y", "s", "\n">>
ShowZone == <<"$", " ", "n", "d", "c", "l", "i", " ", "s", "h", "o", "w", " ", "z", "o", "n", "e", " ", "a", "\n">>
DeleteZone == <<"$", " ", "n", "d", "c", "l", "i", " ", "d", "e", "l", "e", "t", "e", " ", "z", "o", "n", "e", " ", "a", "\n">>
Dig == <<"$", " ", "d", "i", "g", " ", "a", "\n">>
Echo == <<"$", " ", "e", "c", "h", "o", " ", "a", "\n">>
CatDirective == <<"$", " ", "c", "a", "t", " ", "<", "<", "E", "O", "F", " ", "|", " ", "n", "d", "c", "l", "i", " ", "i", "m", "p", "o", "r", "t", "\n">>

\* a directive with the lines that follow it up to the next directive
Segments ==
  { <<ListKeys, <<"a", " ", "b", " ", "c", " ", "d", " ", "e", " ", "f", "\n">>, <<"1", " ", "2", " ", "3", " ", "4", " ", "5", " ", "6", "\n">>>>,
    <<ListKeys, <<"a", "\n">>>>,
    <<ShowZone, <<"a", "\n">>>>,
    <<ShowZone, <<"a", ":", " ", "1", "\n">>, <<"#", "c", "\n">>, <<"b", ":", " ", "2", "\n">>>>,
    <<DeleteZone, <<"b", "\n">>, <<"#", "c", "\n">>, <<"\n">>>>,
    <<DeleteZone, <<"b", "\n">>, <<"a", "\n">>>>,
    <<DeleteZone>>,
    <<Dig, <<"b", "\n">>, <<"a", "\n">>>>,
    <<Dig, <<"a", "\n">>, <<"\n">>>>,
    <<Echo, <<"a", "\n">>>>,
    <<Echo, <<"b", "\n">>, <<"a", "\n">>>>,
    <<CatDirective, <<"i", "\n">>, <<"E", "O", "F", "\n">>, <<"a", "\n">>>>,
    <<CatDirective, <<"i", "\n">>>> }

\* the lines before the first directive
Leading == { << >>, << <<"\n">> >> }

RECURSIVE Transcripts(_)
Transcripts(n) ==
  IF n = 0 THEN Leading
  ELSE Transcripts(n - 1)
         \cup { t \o s : t \in Transcripts(n - 1), s \in Segments }

\* a last directive whose last line has no line end
FinalSegments == { <<CatDirective, <<"i", "\n">>, <<"E", "O", "F">>>> }

\* the files run_test is given: f.readlines() leaves every line but the last
\* with its line end
Testfiles ==
  Transcripts(MaxDirectives)
    \cup { t \o s : t \in Transcripts(MaxDirectives - 1), s \in FinalSegments }

Reverse(seq) == [i \in 1..Len(seq) |-> seq[Len(seq) + 1 - i]]

\* what run_command may return for a directive: the recorded output, the
\* recorded lines in reverse order, or something else
NdcliResults(expected_result) ==
  { join(expected_result), join(Reverse(expected_result)), <<"z", "\n">> }

\* what run_system_command may return for a directive: the recorded lines, the
\* recorded lines in reverse order, the recorded lines and an empty last line,
\* or something else.  The lines are taken as text (str), the type that
\* process_command compares them with and writes them as.
ShellResults(expected_result) ==
  { [i \in 1..Len(expected_result) |-> strip_nl(expected_result[i])],
    [i \in 1..Len(expected_result) |-> strip_nl(Reverse(expected_result)[i])],
    Append([i \in 1..Len(expected_result) |-> strip_nl(expected_result[i])], << >>),
    << <<"z">> >> }

\* lines 334-357: the state when the main loop is entered
Init ==
  /\ mt = [pc |-> "idle"]
  /\ cmp = [pc |-> "idle"]
  /\ TbIdle /\ WuIdle /\ MnIdle
  /\ testfile \in Testfiles
  /\ lines = testfile
  /\ out = << >>
  /\ stop_on_error \in BOOLEAN
  /\ \E auto_pdns_check_arg \in BOOLEAN :
       /\ auto_pdns_check = scan_auto_pdns_check(testfile, auto_pdns_check_arg)
       /\ pdns_needed = scan_pdns_needed(testfile, auto_pdns_check_arg)
  /\ pc = "loop"
  /\ ret = "none"
  /\ hist = << >>

\* the record kept of a directive whose command was run
Record(p, kind, actual, output, ok, err, exact, sorted, begin, end) ==
  [line |-> p.line, kind |-> kind, has_input |-> p.has_input, cmd_input |-> p.cmd_input,
   block |-> p.block, expected_result |-> p.expected_result, cursor |-> p.lines,
   actual |-> actual, output |-> output, ok |-> ok, err |-> err, exact |-> exact,
   sorted |-> sorted, out_begin |-> begin, out_end |-> end]

\* lines 359-360 for a line that is not a directive: the line is copied
CopyLine ==
  /\ pc = "loop" /\ Len(lines) > 0
  /\ ~startswith(Head(lines), <<"$", " ">>)
  /\ lines' = Tail(lines)
  /\ out' = out \o Head(lines)
  /\ UNCHANGED <<testfile, stop_on_error, auto_pdns_check, pdns_needed, pc, ret, hist, mt, cmp, tb, wu, mn>>

\* lines 359-390, 397-398 for an ndcli directive
NdcliDirective ==
  /\ pc = "loop" /\ Len(lines) > 0
  /\ startswith(Head(lines), <<"$", " ">>)
  /\ \E p \in { prelude(lines, out) } :
       /\ startswith(p.line, <<"$", " ", "n", "d", "c", "l", "i">>)
       /\ \E result \in NdcliResults(p.expected_result), zones_equal \in BOOLEAN :
            \E actual_table \in { actual_table_of(p.line, result) } :
            \E expected_table \in { expected_table_of(p.line, p.expected_result) } :
            \E annotated \in { add_regex(expected_table, p.line) } :
            \E output \in { ndcli_output(annotated, actual_table, result, p.expected_result) } :
            \E pdns \in { IF auto_pdns_check THEN check_pdns_output(p.line, zones_equal)
                          ELSE [ok |-> TRUE, written |-> << >>] } :
              LET err == annotated.err
                  written == IF err THEN << >> ELSE join(output) \o pdns.written
                  ok == ~err /\ output = p.expected_result /\ pdns.ok
              IN  /\ lines' = p.lines
                  /\ out' = p.out \o written
                  /\ hist' = Append(hist,
                       Record(p, "ndcli", splitlines_keep(result), output, ok, err,
                              splitlines_keep(result) = p.expected_result, FALSE,
                              Len(out), Len(p.out \o written)))
                  /\ pc' = IF err THEN "raised"
                           ELSE IF stop_on_error /\ ~ok THEN "done" ELSE "loop"
                  /\ ret' = IF ~err /\ stop_on_error /\ ~ok THEN "False" ELSE ret
  /\ UNCHANGED <<testfile, stop_on_error, auto_pdns_check, pdns_needed, mt, cmp, tb, wu, mn>>

\* lines 359-371, 392-398 for a shell directive
ShellDirective ==
  /\ pc = "loop" /\ Len(lines) > 0
  /\ startswith(Head(lines), <<"$", " ">>)
  /\ \E p \in { prelude(lines, out) } :
       /\ ~startswith(p.line, <<"$", " ", "n", "d", "c", "l", "i">>)
       /\ \E result \in ShellResults(p.expected_result) :
            \E sorted \in { is_pdns_query(strip_nl(p.line)) } :
            \E c \in { process_command(result, p.expected_result, sorted) } :
              /\ lines' = p.lines
              /\ out' = p.out \o join(c.written)
              /\ hist' = Append(hist,
                   Record(p, "shell", result, c.written, c.passed, FALSE,
                          result = [i \in 1..Len(p.expected_result) |->
                                      strip_nl(p.expected_result[i])],
                          sorted, Len(out), Len(p.out \o join(c.written))))
              /\ pc' = IF stop_on_error /\ ~c.passed THEN "done" ELSE "loop"
              /\ ret' = IF stop_on_error /\ ~c.passed THEN "False" ELSE ret
  /\ UNCHANGED <<testfile, stop_on_error, auto_pdns_check, pdns_needed, mt, cmp, tb, wu, mn>>

\* lines 358, 399: the transcript is exhausted and the two files are compared
Return ==
  /\ pc = "loop" /\ Len(lines) = 0
  /\ pc' = "done"
  /\ ret' = IF out = join(testfile) THEN "True" ELSE "False"
  /\ UNCHANGED <<testfile, lines, out, stop_on_error, auto_pdns_check, pdns_needed, hist, mt, cmp, tb, wu, mn>>

Next == CopyLine \/ NdcliDirective \/ ShellDirective \/ Return

Spec == Init /\ [][Next]_vars

(***************************************************************************)
(* Properties.                                                             *)
(***************************************************************************)
\* what the claims call "an actual row matches an expected row": equal row
\* length, and every cell equal to the literal expected cell or matching the
\* expected pattern anchored at its start
RowFits(row, info) ==
  /\ Len(row) = Len(info)
  /\ \A i \in 1..Len(row) :
       \/ info[i].k = "str" /\ info[i].v = row[i].v
       \/ info[i].k = "re" /\ re_match(info[i].v, row[i].v)

\* the expected rows assigned to the actual rows before row n
TakenBefore(n) == { mt.matched[p] : p \in 1..(n - 1) } \ {0}

\* expected row e is open to actual row n when n is processed
Open(n, e) == e \notin TakenBefore(n) /\ RowFits(mt.actual_table[n], mt.expected_table[e])

C2_StateInv ==
  \A n \in 1..Len(mt.matched) :
    /\ mt.matched[n] # 0 =>
         /\ mt.matched[n] \in 1..Len(mt.expected_table)
         /\ Open(n, mt.matched[n])
         /\ \A e \in 1..(mt.matched[n] - 1) : ~Open(n, e)
    /\ mt.matched[n] = 0 => \A e \in 1..Len(mt.expected_table) : ~Open(n, e)
    /\ \A m \in 1..Len(mt.matched) :
         (m # n /\ mt.matched[n] # 0) => mt.matched[m] # mt.matched[n]

C2_Stable ==
  /\ Len(mt'.matched) >= Len(mt.matched)
  /\ \A n \in 1..Len(mt.matched) : mt'.matched[n] = mt.matched[n]

\* C2: greedy matching.  Every processed actual row is assigned to the
\* lowest-index expected row that no earlier actual row was assigned to and that
\* it matches, and stays unmatched when there is none; no expected row is
\* assigned twice; and an assignment, once made, is never changed by a later
\* step.  (The assignment is thereby a function of the two tables.)
C2_GreedyMatching == []C2_StateInv /\ [][C2_Stable]_vars

\* C2 witness: two identical expected rows, two identical actual rows, both
\* matched, to different expected rows
C2_Witness ==
  /\ mt.pc = "done"
  /\ Len(mt.expected_table) = 2 /\ mt.expected_table[1] = mt.expected_table[2]
  /\ Len(mt.actual_table) = 2 /\ mt.actual_table[1] = mt.actual_table[2]
  /\ mt.matched = <<1, 2>>

\* whether line `no' of the actual raw lines is a key of `matched'
InMatched(no) == no <= Len(mt.matched) /\ mt.matched[no] # 0

\* the k-th smallest element of a set of numbers
KthSmallest(S, k) == CHOOSE v \in S : Cardinality({ u \in S : u <= v }) = k

\* C3 as stated: at the position of every matched actual row, the line is the raw
\* text of the expected row that this actual row was matched to
C3_Original ==
  mt.pc = "done" =>
    /\ Len(mt.result) = Len(mt.actual_raw)
    /\ \A no \in 1..Len(mt.actual_raw) :
         mt.result[no] = IF InMatched(no) THEN mt.expected_raw[mt.matched[no]]
                         ELSE mt.actual_raw[no]

\* C3 as amended: one line per actual raw line; at the position of the k-th
\* matched actual row (counted in line order) the line is the raw text of the
\* expected row with the k-th smallest index among the matched expected rows; at
\* every other position it is the actual raw line
C3_OutputComposition ==
  mt.pc = "done" =>
    /\ Len(mt.result) = Len(mt.actual_raw)
    /\ \A no \in 1..Len(mt.actual_raw) :
         mt.result[no] =
           IF InMatched(no)
           THEN mt.expected_raw[KthSmallest({ mt.matched[p] : p \in { q \in 1..Len(mt.matched) : InMatched(q) } },
                                            Cardinality({ p \in 1..no : InMatched(p) }))]
           ELSE mt.actual_raw[no]

\* C3 witness: a finished call in which the rows were matched crosswise and a
\* further actual line was left unmatched
C3_Witness ==
  /\ mt.pc = "done"
  /\ Len(mt.matched) >= 2 /\ mt.matched[1] = 2 /\ mt.matched[2] = 1
  /\ \E no \in 1..Len(mt.actual_raw) : ~InMatched(no)

\* number of occurrences of a row in a table
Count(table, row) == Cardinality({ i \in 1..Len(table) : table[i] = row })

\* the actual table is a permutation of an all-literal expected table, with as
\* many raw lines as rows on both sides
IsLiteralPermutation ==
  /\ \A e \in 1..Len(mt.expected_table) :
       \A i \in 1..Len(mt.expected_table[e]) : mt.expected_table[e][i].k = "str"
  /\ Len(mt.actual_table) = Len(mt.expected_table)
  /\ Len(mt.actual_raw) = Len(mt.actual_table)
  /\ Len(mt.expected_raw) = Len(mt.expected_table)
  /\ \A n \in 1..Len(mt.actual_table) :
       Count(mt.actual_table, mt.actual_table[n]) = Count(mt.expected_table, mt.actual_table[n])

\* C4: permutation tolerance.  When the actual table is a permutation of the
\* all-literal expected table, every actual row is matched and the returned lines
\* are the expected raw lines in recorded order (run_test's output == expected).
C4_PermutationTolerance ==
  (mt.pc = "done" /\ IsLiteralPermutation) =>
    /\ \A n \in 1..Len(mt.actual_table) : mt.matched[n] # 0
    /\ mt.result = mt.expected_raw

\* C4 witness: a finished call on a reordered table with a repeated row
C4_Witness ==
  /\ mt.pc = "done" /\ IsLiteralPermutation
  /\ Len(mt.actual_table) = 3
  /\ mt.actual_table # mt.expected_table
  /\ mt.expected_table[1] = mt.expected_table[3]

\* the i-th pair of the loop of process_command, the shorter list padded with ''
PairActual(i) == IF i <= Len(cmp.actual_output) THEN cmp.actual_output[i] ELSE << >>

PairExpected(i) ==
  strip_nl(IF i <= Len(cmp.expected_output) THEN cmp.expected_output[i] ELSE << >>)

IsRegexLine(expected) == endswith(expected, <<" ", "r", "e">>)

ExpectedText == [i \in 1..Len(cmp.input_expected) |-> strip_nl(cmp.input_expected[i])]

\* the actual lines are the expected lines in some order, none of them a pattern
IsLinePermutation ==
  /\ Len(cmp.input_actual) = Len(cmp.input_expected)
  /\ \A i \in 1..Len(ExpectedText) :
       /\ ~IsRegexLine(ExpectedText[i])
       /\ Count(cmp.input_actual, ExpectedText[i]) = Count(ExpectedText, ExpectedText[i])

\* C10 as stated: without sort_before, a non-identity permutation of distinct
\* literal expected lines fails; with sort_before, every permutation of the same
\* literal lines passes
C10_Original ==
  (cmp.pc = "done" /\ IsLinePermutation) =>
    /\ (~cmp.sort_before /\ cmp.input_actual # ExpectedText
          /\ \A i \in 1..Len(ExpectedText) : Count(ExpectedText, ExpectedText[i]) = 1)
         => ~cmp.passed
    /\ cmp.sort_before => cmp.passed

(***************************************************************************)
(* Properties of run_test.                                                 *)
(***************************************************************************)
Last(seq) == seq[Len(seq)]

\* the trailing ignorable lines that were taken off the block of record h
TakenOff(h) == SubSeq(h.block, Len(h.expected_result) + 1, Len(h.block))

\* the run is over: the loop was left at line 358 or at line 398
Finished == pc = "done"

\* C1 as stated: without fail-fast and without the zone check, if every
\* directive's actual output equals its recorded output line for line, the
\* output file has the bytes of the transcript
C1_Original ==
  (/\ Finished /\ ~stop_on_error /\ ~auto_pdns_check
   /\ \A i \in 1..Len(hist) : hist[i].exact)
    => out = join(testfile)

\* the block handed to the comparator is empty or ends with a line that is
\* not ignorable
C5_BlockEnd ==
  \A i \in 1..Len(hist) :
    hist[i].expected_result = << >> \/ ~is_ignorable(Last(hist[i].expected_result))

\* the lines taken off the block are the first elements of the cursor, in
\* their original order
C5_CursorFront ==
  \A i \in 1..Len(hist) :
    /\ hist[i].block = hist[i].expected_result \o TakenOff(hist[i])
    /\ Len(hist[i].cursor) >= Len(TakenOff(hist[i]))
    /\ SubSeq(hist[i].cursor, 1, Len(TakenOff(hist[i]))) = TakenOff(hist[i])

\* the text of the lines taken off the block follows the directive's output
\* in the output file and is followed by the next directive
C5_OutputPlace ==
  \A i \in 1..Len(hist) :
    LET text == join(TakenOff(hist[i]))
        from == hist[i].out_end
    IN  /\ i < Len(hist) =>
             /\ hist[i + 1].out_begin = from + Len(text)
             /\ SubSeq(out, from + 1, from + Len(text)) = text
        /\ (i = Len(hist) /\ pc = "done" /\ lines = << >>) =>
             SubSeq(out, from + 1, Len(out)) = text

\* C5 as stated: the block handed over has no trailing ignorable line, the
\* lines taken off are put back at the front of the cursor in their order, and
\* they are written after the directive's output and before the next directive
C5_Original == C5_BlockEnd /\ C5_CursorFront /\ C5_OutputPlace

\* the directives of a transcript in transcript order; the lines of a heredoc
\* are input of their directive
RECURSIVE Directives(_)
Directives(ls) ==
  IF ls = << >> THEN << >>
  ELSE IF startswith(Head(ls), <<"$", " ", "c", "a", "t", " ", "<", "<", "E", "O", "F", " ", "|", " ", "n", "d", "c", "l", "i">>)
  THEN <<split_cat_command(Head(ls)).line>>
         \o Directives(get_cat_input(Tail(ls), split_cat_command(Head(ls)).word, << >>, << >>).lines)
  ELSE IF startswith(Head(ls), <<"$", " ">>) THEN <<Head(ls)>> \o Directives(Tail(ls))
  ELSE Directives(Tail(ls))

\* the directives whose command was run, in the order they were run
Executed == [i \in 1..Len(hist) |-> hist[i].line]

\* with stop_on_error, the first directive whose outcome is not ok is the
\* last one run, it is written in full, nothing is written after it and
\* False is returned
C7_FailFast ==
  \A i \in 1..Len(hist) :
    (stop_on_error /\ ~hist[i].ok /\ ~hist[i].err) =>
      /\ i = Len(hist)
      /\ pc = "done" /\ ret = "False"
      /\ Len(out) = hist[i].out_end
      /\ hist[i].out_end >= hist[i].out_begin + Len(hist[i].line)

\* without stop_on_error every directive of the transcript is run once, in
\* transcript order
C7_AllExecuted ==
  /\ \A n \in 1..Len(hist) : SubSeq(Directives(testfile), 1, n) = SubSeq(Executed, 1, n)
  /\ (~stop_on_error /\ pc # "loop") => Executed = Directives(testfile)

\* C7 as stated: fail-fast stops right after the first directive that is not
\* ok; otherwise all directives are run in order whatever the earlier outcomes
C7_Original == C7_FailFast /\ C7_AllExecuted

\* C8 as stated: without fail-fast the value returned is the conjunction of
\* the directives' outcomes, and all outcomes are ok exactly when the output
\* file has the bytes of the transcript
C8_Original ==
  (Finished /\ ~stop_on_error) =>
    /\ (ret = "True") <=> (\A i \in 1..Len(hist) : hist[i].ok)
    /\ (\A i \in 1..Len(hist) : hist[i].ok) <=> (out = join(testfile))

\* C9 as stated: no ndcli directive raises, whatever the actual output and
\* the expected block are; it yields output lines and the loop goes on
C9_Original ==
  /\ pc # "raised"
  /\ \A i \in 1..Len(hist) : hist[i].kind = "ndcli" => ~hist[i].err

(***************************************************************************)
(* Properties of table_from_lines and add_regex.                           *)
(***************************************************************************)
\* the lines of the input that are not ignorable
TableKept == not_ignorable(tb.lines)

TableExtracted == tb.pc \in {"extracted", "done"}

\* every line that is not ignorable gives a row (key, value), cut at the
\* first colon of the line
C11_Rows ==
  (TableExtracted /\ generates_map(tb.cmd)) =>
    /\ Len(tb.table) = Len(TableKept)
    /\ \A i \in 1..Len(tb.table) :
         /\ Len(tb.table[i]) = 2
         /\ ~contains(tb.table[i][1].v, <<":">>)
         /\ tb.table[i][1].v \o <<":">> \o tb.table[i][2].v = TableKept[i]

\* the line "created: 2020-01-01" gives the cells "created" and "2020-01-01"
C11_Example ==
  (TableExtracted /\ generates_map(tb.cmd)) =>
    \A i \in 1..Len(tb.table) :
      TableKept[i] = <<"c", "r", "e", "a", "t", "e", "d", ":", " ", "2", "0", "2", "0", "-", "0", "1", "-", "0", "1">>
        => tb.table[i] = <<Str(<<"c", "r", "e", "a", "t", "e", "d">>), Str(<<"2", "0", "2", "0", "-", "0", "1", "-", "0", "1">>)>>

\* after add_regex the value of a created, modified, created_by or
\* modified_by row is a pattern that matches every value
C11_Wildcard ==
  (tb.pc = "done" /\ generates_map(tb.cmd)) =>
    /\ ~tb.annotated.err
    /\ \A i \in 1..Len(tb.table) :
         tb.table[i][1].v \in { <<"c", "r", "e", "a", "t", "e", "d">>, <<"m", "o", "d", "i", "f", "i", "e", "d">>, <<"c", "r", "e", "a", "t", "e", "d", "_", "b", "y">>, <<"m", "o", "d", "i", "f", "i", "e", "d", "_", "b", "y">> } =>
           /\ Len(tb.annotated.table[i]) = 2
           /\ tb.annotated.table[i][2].k = "re"
           /\ \A v \in { << >>, <<"x">>, <<" ", "2", "0", "2", "0", "-", "0", "1", "-", "0", "1">> } :
                match(<<tb.table[i][1], Str(v)>>, tb.annotated.table[i])

\* C11 as stated: for a map-shape command every line that is not ignorable
\* becomes a 2-cell row split at the first colon, "created: 2020-01-01" gives
\* ("created", "2020-01-01"), and after add_regex the value of a created,
\* modified, created_by or modified_by row is a wildcard pattern that matches
\* any value
C11_Original == C11_Rows /\ C11_Example /\ C11_Wildcard

\* the 0-based positions at which the whitespace-separated tokens of s begin
TokenStarts(s) ==
  LET P == { i \in 0..(Len(s) - 1) :
               s[i + 1] \notin Whitespace /\ (i = 0 \/ s[i] \in Whitespace) }
  IN  [k \in 1..Cardinality(P) |->
         CHOOSE i \in P : Cardinality({ j \in P : j < i }) = k - 1]

\* the command has the default (fixed-width) shape of table_from_lines
FixedWidth ==
  /\ ~generates_map(tb.cmd)
  /\ ~contains(tb.cmd, <<" ", "-", "H">>) /\ ~contains(tb.cmd, <<"d", "u", "m", "p", " ", "z", "o", "n", "e">>)

\* the offsets table_from_lines computes from the header line
TableOffsets == header_offsets(TableKept[1], split_ws(TableKept[1]), << >>)

\* the offset of the k-th header token is the position where it begins
C12_Offsets ==
  (TableExtracted /\ FixedWidth /\ TableKept # << >>) =>
    TableOffsets = TokenStarts(TableKept[1])

C12_Increasing ==
  (TableExtracted /\ FixedWidth /\ TableKept # << >>) =>
    \A k \in 1..(Len(TableOffsets) - 1) : TableOffsets[k] < TableOffsets[k + 1]

\* every row has one cell per header token: the text of the line between the
\* positions of consecutive header tokens, stripped, or nothing when the line
\* is shorter
C12_Cells ==
  (TableExtracted /\ FixedWidth /\ TableKept # << >>) =>
    LET starts == TokenStarts(TableKept[1])
    IN  \A i \in 1..Len(tb.table) :
          /\ Len(tb.table[i]) = Len(starts)
          /\ \A col \in 1..Len(starts) :
               tb.table[i][col] =
                 Str(IF starts[col] < Len(TableKept[i])
                     THEN strip(Slice(TableKept[i], starts[col],
                                      IF col < Len(starts)
                                      THEN Min(starts[col + 1], Len(TableKept[i]))
                                      ELSE Len(TableKept[i])))
                     ELSE << >>)

C12_Empty ==
  (TableExtracted /\ FixedWidth /\ TableKept = << >>) => tb.table = << >>

\* C12 as stated: in the default shape the offset of each header token is
\* where the token begins, also when a header name is part of another one;
\* the offsets increase strictly; every row has one cell per header token,
\* the stripped slice between consecutive offsets or empty when the line is
\* short; only ignorable lines give an empty table
C12_Original == C12_Offsets /\ C12_Increasing /\ C12_Cells /\ C12_Empty

(***************************************************************************)
(* Rows and raw lines of a table- or map-shaped directive.                 *)
(***************************************************************************)
\* the directives of the run whose output went through table_from_lines
TableShaped(h) ==
  h.kind = "ndcli" /\ ~h.err /\ (generates_table(h.line) \/ generates_map(h.line))

\* the positions of the lines that table_from_lines keeps, in order
RECURSIVE DataIndexes(_, _)
DataIndexes(raw, k) ==
  IF k > Len(raw) THEN << >>
  ELSE IF is_ignorable(raw[k]) THEN DataIndexes(raw, k + 1)
  ELSE <<k>> \o DataIndexes(raw, k + 1)

\* row k was extracted from raw line k, for every row
Aligned(raw) == \A k \in 1..Len(DataIndexes(raw, 1)) : DataIndexes(raw, 1)[k] = k

\* the dict of match_table for a directive of the run
MatchedOf(h) ==
  match_rows(actual_table_of(h.line, join(h.actual)),
             add_regex(expected_table_of(h.line, h.expected_result), h.line).table, << >>)

\* every actual row found an expected row and every expected row was taken
AllRowsMatch(h) ==
  LET matched == MatchedOf(h)
  IN  /\ \A n \in 1..Len(matched) : matched[n] # 0
      /\ Len(matched) = Len(DataIndexes(h.expected_result, 1))

C13_Alignment ==
  \A i \in 1..Len(hist) :
    TableShaped(hist[i]) => Aligned(hist[i].actual) /\ Aligned(hist[i].expected_result)

C13_Emitted ==
  \A i \in 1..Len(hist) :
    (TableShaped(hist[i]) /\ AllRowsMatch(hist[i])) => hist[i].output = hist[i].expected_result

\* C13: for table- and map-shaped ndcli directives row k of the extracted
\* table comes from raw line k of the lines passed with it to match_table, on
\* the actual and on the expected side, also with blank or '#' lines before or
\* between the data lines; and a block whose data rows all match is written
\* equal to the expected block
C13_Original == C13_Alignment /\ C13_Emitted


(***************************************************************************)
(* Heredoc input.                                                          *)
(***************************************************************************)
\* the loop is about to take a '$ cat <<EOF | ndcli' directive off the cursor
AtCat ==
  /\ pc = "loop" /\ Len(lines) > 0
  /\ startswith(Head(lines), <<"$", " ", "c", "a", "t", " ", "<", "<", "E", "O", "F", " ", "|", " ", "n", "d", "c", "l", "i">>)

\* a line equal to 'EOF', with or without its line end
IsTerminator(l) == l = <<"E", "O", "F">> \/ l = <<"E", "O", "F", "\n">>

\* the position in the cursor of the first terminator after the directive, or
\* one past the end when there is none
TerminatorAt ==
  LET at == { i \in 2..Len(lines) : IsTerminator(lines[i]) }
  IN  IF at = {} THEN Len(lines) + 1 ELSE CHOOSE i \in at : \A j \in at : i <= j

\* the command input is the text of the lines up to the terminator
C15_Input == Last(hist').cmd_input = join(SubSeq(lines, 2, TerminatorAt - 1))

\* the directive, the input lines and the terminator are written, in order,
\* before anything the command gives
C15_Written ==
  LET removed == join(SubSeq(lines, 1, Min(TerminatorAt, Len(lines))))
  IN  /\ Last(hist').out_begin = Len(out)
      /\ Len(out') >= Len(out) + Len(removed)
      /\ SubSeq(out', 1, Len(out) + Len(removed)) = out \o removed

\* the lines after the terminator up to the next directive are the block
C15_Block ==
  LET rest == SubSeq(lines, TerminatorAt + 1, Len(lines))
  IN  Last(hist').block = SubSeq(rest, 1, block_length(rest))

\* C15: for a '$ cat <<EOF | ndcli' directive the lines up to and including
\* the first line equal to 'EOF' are taken off the cursor and written, the
\* command input is their text without the terminator, and the lines after the
\* terminator are collected as the expected block; without a terminator all
\* remaining lines are input
C15_Original == [][AtCat => (C15_Input /\ C15_Written /\ C15_Block)]_vars


(***************************************************************************)
(* Termination of the main loop.                                           *)
(***************************************************************************)
MaxLiveDirectives == 2

\* the segments the termination runs are made of: a table whose block is too
\* short for its command, a block with trailing ignorable lines, a shell
\* command, and input without a terminator
LiveSegments ==
  { <<ListKeys, <<"a", "\n">>>>,
    <<DeleteZone, <<"b", "\n">>, <<"#", "c", "\n">>, <<"\n">>>>,
    <<Echo, <<"a", "\n">>>>,
    <<CatDirective, <<"i", "\n">>>> }

RECURSIVE LiveTranscripts(_)
LiveTranscripts(n) ==
  IF n = 0 THEN { << >> }
  ELSE LiveTranscripts(n - 1)
         \cup { t \o s : t \in LiveTranscripts(n - 1), s \in LiveSegments }

\* lines 334-357, as Init, for the termination runs
LiveInit ==
  /\ mt = [pc |-> "idle"]
  /\ cmp = [pc |-> "idle"]
  /\ TbIdle /\ WuIdle /\ MnIdle
  /\ testfile \in LiveTranscripts(MaxLiveDirectives)
  /\ lines = testfile
  /\ out = << >>
  /\ stop_on_error \in BOOLEAN
  /\ \E auto_pdns_check_arg \in BOOLEAN :
       /\ auto_pdns_check = scan_auto_pdns_check(testfile, auto_pdns_check_arg)
       /\ pdns_needed = scan_pdns_needed(testfile, auto_pdns_check_arg)
  /\ pc = "loop"
  /\ ret = "none"
  /\ hist = << >>

\* lines 359-371: the cursor after an iteration that began with cursor ls
next_cursor(ls, o) ==
  IF startswith(Head(ls), <<"$", " ">>) THEN prelude(ls, o).lines ELSE Tail(ls)

\* lines 358-399: what every step of Next does to the cursor and to the
\* position of the run, whatever the command gives
Iteration ==
  /\ pc = "loop"
  /\ IF Len(lines) > 0
     THEN lines' = next_cursor(lines, out) /\ pc' \in {"loop", "done", "raised"}
     ELSE lines' = lines /\ pc' = "done"

\* The loop of lines 358-398 keeps running while it can: every command that
\* is executed returns, so an iteration that can begin is made.  Every step of
\* Next is an Iteration step that changes the cursor or the position, and
\* Iteration is possible exactly when Next is, so this is weak fairness of Next.
SpecLive == LiveInit /\ [][Next]_vars /\ WF_<<lines, pc>>(Iteration)

\* the number of characters left in the cursor
CursorSize(ls) == Len(join(ls))

\* every iteration takes more characters off the cursor than the push-back
\* puts in again, so no directive and no pushed-back line comes round again
C14_Progress ==
  [][(pc = "loop" /\ Len(lines) > 0) => CursorSize(lines') < CursorSize(lines)]_vars

\* the loop is left
C14_LoopLeft == <>(pc # "loop")

\* without fail-fast the loop is left with the cursor empty
C14_Exhausted == (~stop_on_error) => <>(pc # "loop" /\ lines = << >>)

\* C14: for every finite transcript the main loop of run_test terminates with
\* the cursor empty, although trailing ignorable lines are put back into the
\* cursor; nothing is pushed back twice and no directive is processed again
C14_Original == C14_Progress /\ C14_LoopLeft /\ C14_Exhausted


(***************************************************************************)
(* PDNSOutputProcess.wait_updates.  The outputupdate table and the output  *)
(* process belong to the environment: the process takes updates off the    *)
(* table and writes to its stdout, each at its own pace.                   *)
(***************************************************************************)
MaxPending == 10
MaxPolls == 3

\* int() of a str of decimal digits
RECURSIVE int(_)
int(s) ==
  IF s = << >> THEN 0
  ELSE 10 * int(SubSeq(s, 1, Len(s) - 1)) + (Ord(s[Len(s)]) - Ord("0"))

\* a number as mysql prints it
RECURSIVE decimal(_)
decimal(n) ==
  IF n < 10 THEN <<Ascii[Ord("0") + n]>>
  ELSE decimal(n \div 10) \o <<Ascii[Ord("0") + (n % 10)]>>

\* what mysql answers to 'SELECT COUNT(*) FROM outputupdate': the column
\* header and the count, one per line
count_query(pending) == <<"C", "O", "U", "N", "T", "(", "*", ")", "\n">> \o decimal(pending) \o <<"\n">>

\* line 66 with the break taken whatever the count is
updates_done_always(query_out) == TRUE

\* line 66: int(out.split()[1]) == 0
updates_done(query_out) == int(split_ws(query_out)[2]) = 0

\* lines 334-348: the process object as run_test creates it, with the table
\* and the pipe in any state
WaitInit ==
  /\ RunIdle
  /\ mt = [pc |-> "idle"]
  /\ cmp = [pc |-> "idle"]
  /\ TbIdle /\ MnIdle
  /\ \E needed \in BOOLEAN, pending \in 0..MaxPending, avail \in BOOLEAN :
       wu = [pc |-> "call", needed |-> needed, pending |-> pending, avail |-> avail,
             polls |-> << >>, reads |-> 0]

\* line 62
WaitBegin ==
  /\ wu.pc = "call"
  /\ wu' = [wu EXCEPT !.pc = IF wu.needed THEN "poll" ELSE "returned"]
  /\ UNCHANGED <<run, mt, cmp, tb, mn>>

\* lines 64-67: the count is asked for and looked at
WaitPoll ==
  /\ wu.pc = "poll"
  /\ \E query_out \in { count_query(wu.pending) } :
       wu' = [wu EXCEPT !.polls = Append(@, int(split_ws(query_out)[2])),
                        !.pc = IF updates_done(query_out) THEN "returned" ELSE "read"]
  /\ UNCHANGED <<run, mt, cmp, tb, mn>>

\* lines 64-65: communicate() is given a str for a pipe opened in binary
\* mode; an interpreter that does not take it raises TypeError
WaitPollRaises ==
  /\ wu.pc = "poll"
  /\ wu' = [wu EXCEPT !.pc = "raised"]
  /\ UNCHANGED <<run, mt, cmp, tb, mn>>

\* line 69: os.read returns when the pipe holds something, and takes it
WaitRead ==
  /\ wu.pc = "read"
  /\ wu.avail
  /\ Len(wu.polls) < MaxPolls
  /\ wu' = [wu EXCEPT !.pc = "poll", !.avail = FALSE, !.reads = @ + 1]
  /\ UNCHANGED <<run, mt, cmp, tb, mn>>

\* the output process takes an update off the table
Drain ==
  /\ wu.pc \in {"poll", "read"}
  /\ wu.pending > 0
  /\ wu' = [wu EXCEPT !.pending = @ - 1]
  /\ UNCHANGED <<run, mt, cmp, tb, mn>>

\* the output process writes to its stdout
ProcessWrites ==
  /\ wu.pc \in {"poll", "read"}
  /\ ~wu.avail
  /\ wu' = [wu EXCEPT !.avail = TRUE]
  /\ UNCHANGED <<run, mt, cmp, tb, mn>>

WaitNext == WaitBegin \/ WaitPoll \/ WaitPollRaises \/ WaitRead \/ Drain \/ ProcessWrites

\* wait_updates runs on while it can, and so does the output process: it
\* goes on taking updates and writing, so every blocking read returns
SpecWait ==
  /\ WaitInit /\ [][WaitNext]_vars
  /\ WF_vars(WaitBegin) /\ WF_vars(WaitPollRaises \/ WaitPoll) /\ WF_vars(WaitRead)
  /\ WF_vars(Drain) /\ WF_vars(ProcessWrites)


\* the polls so far that gave a count other than 0
NonZeroPolls == Cardinality({ i \in 1..Len(wu.polls) : wu.polls[i] # 0 })

\* a needed process: the return follows a poll that gave 0, the table being
\* empty then, and no poll before it gave 0
C16_ReturnAfterZero ==
  (wu.pc = "returned" /\ wu.needed) =>
    /\ Len(wu.polls) > 0
    /\ Last(wu.polls) = 0
    /\ wu.pending = 0
    /\ \A i \in 1..(Len(wu.polls) - 1) : wu.polls[i] # 0

\* one read for every poll that gave another count, made before the next poll
C16_OneRead ==
  wu.pc \in {"call", "poll", "read", "returned", "raised"} =>
    wu.reads = IF wu.pc = "read" THEN NonZeroPolls - 1 ELSE NonZeroPolls

\* a process that is not needed: the return comes first, nothing is polled
C16_NotNeeded ==
  (wu.pc # "idle" /\ ~wu.needed) =>
    wu.pc \in {"call", "returned"} /\ wu.polls = << >> /\ wu.reads = 0

\* once the table is empty the next poll ends the wait
C16_Converges ==
  (wu.pc = "poll" /\ wu.pending = 0) ~> (wu.pc \in {"returned", "raised"})

\* the wait ends, or goes on for as many polls as are followed here
C16_Ends ==
  <>(wu.pc \in {"returned", "raised"} \/ (wu.pc = "read" /\ Len(wu.polls) = MaxPolls))

\* C16: when the process is needed wait_updates returns only after a poll of
\* the outputupdate count gave 0; after every poll that gave another count it
\* makes exactly one blocking read before it polls again; there is no timeout,
\* it returns when the count has reached 0 and every read has returned; when
\* the process is not needed it returns at once without polling
C16_Polling ==
  /\ [](C16_ReturnAfterZero /\ C16_OneRead /\ C16_NotNeeded)
  /\ C16_Converges
  /\ C16_Ends

\* a wait that saw a two-digit count, read twice and returned on the third poll
C16_Witness ==
  /\ wu.pc = "returned" /\ wu.needed
  /\ Len(wu.polls) = MaxPolls /\ wu.polls[1] = MaxPending /\ wu.reads = MaxPolls - 1


(***************************************************************************)
(* The runner, lines 402-449: one test after the other.  What becomes of a *)
(* test is chosen when it is run.                                          *)
(***************************************************************************)
MaxTests == 3

\* lines 402-419: the arguments are read; nothing has run
MainInit ==
  /\ RunIdle
  /\ mt = [pc |-> "idle"]
  /\ cmp = [pc |-> "idle"]
  /\ TbIdle /\ WuIdle
  /\ \E n \in 1..MaxTests, x \in BOOLEAN :
       mn = [pc |-> "loop", tests |-> n, stop_on_error |-> x, done |-> << >>,
             failed |-> 0, exit_code |-> -1]

\* lines 438-445: the result is printed and counted, and the loop goes on or
\* is left
after_test(m, outcome, ok) ==
  LET ran == Append(m.done, outcome)
      failed == IF ok THEN m.failed ELSE m.failed + 1
  IN  [m EXCEPT !.done = ran, !.failed = failed,
                !.pc = IF (~ok /\ m.stop_on_error) \/ Len(ran) = m.tests
                       THEN "finish" ELSE "loop"]

\* lines 434, 438-445: run_test returns True or False
MainTestReturns ==
  /\ mn.pc = "loop"
  /\ \E ok \in BOOLEAN : mn' = after_test(mn, IF ok THEN "ok" ELSE "fail", ok)
  /\ UNCHANGED <<run, mt, cmp, tb, wu>>

\* lines 434-445: run_test raises an Exception outside an ndcli command (the
\* file cannot be opened, a shell command cannot be run, add_regex raises)
MainTestRaises ==
  /\ mn.pc = "loop"
  /\ mn' = after_test(mn, "raised", FALSE)
  /\ UNCHANGED <<run, mt, cmp, tb, wu>>

\* lines 99-106, 434-438: CLI().run raises inside _ndcli, so line 106 does not
\* put sys.stdout back; the exception is caught in line 435, and print in
\* line 438 writes a str through the utf8 writer into the StringIO, which
\* raises TypeError outside the try: the runner ends with a traceback
MainCommandRaises ==
  /\ mn.pc = "loop"
  /\ mn' = [mn EXCEPT !.done = Append(@, "command raised"), !.pc = "exited", !.exit_code = 1]
  /\ UNCHANGED <<run, mt, cmp, tb, wu>>

\* lines 127-128, 435: clean_database calls sys.exit(1) when its shell
\* commands fail; SystemExit is no Exception and passes through line 435
MainSystemExit ==
  /\ mn.pc = "loop"
  /\ mn' = [mn EXCEPT !.done = Append(@, "exit called"), !.pc = "exited", !.exit_code = 1]
  /\ UNCHANGED <<run, mt, cmp, tb, wu>>

\* lines 446-448
MainExit ==
  /\ mn.pc = "finish"
  /\ mn' = [mn EXCEPT !.pc = "exited", !.exit_code = IF mn.failed > 0 THEN 1 ELSE 0]
  /\ UNCHANGED <<run, mt, cmp, tb, wu>>

MainNext ==
  MainTestReturns \/ MainTestRaises \/ MainCommandRaises \/ MainSystemExit \/ MainExit

SpecMain == MainInit /\ [][MainNext]_vars

\* the tests run so far that did not pass
NotPassed == { i \in 1..Len(mn.done) : mn.done[i] # "ok" }

\* a test that returned False or raised an Exception is counted, once
C17_Counted ==
  mn.pc \in {"loop", "finish"} => mn.failed = Cardinality(NotPassed)

\* without fail-fast the runner ends only when every test has been run
C17_GoesOn ==
  (mn.pc = "exited" /\ ~mn.stop_on_error) => Len(mn.done) = mn.tests

\* with fail-fast the first test that does not pass is the last one run
C17_FailFast ==
  (mn.pc # "idle" /\ mn.stop_on_error) =>
    \A i \in NotPassed : i = Len(mn.done) /\ mn.pc # "loop"

\* the exit code is 1 when a test that was run did not pass, else 0
C17_ExitCode ==
  mn.pc = "exited" => mn.exit_code = IF NotPassed # {} THEN 1 ELSE 0

\* C17: an exception raised while one test runs marks only that test as
\* failed; the runner goes on to the next test unless fail-fast is set, and
\* then stops after the first failed test; the exit code is 1 iff at least one
\* test that was run failed
C17_Original == C17_Counted /\ C17_GoesOn /\ C17_FailFast /\ C17_ExitCode


\* ==== end ====
====
